---- MODULE Spec2Model ----
(***************************************************************************)
(* Model of the RUC login front-end: the RUC-only Auth screen              *)
(* (src/src/pages/Auth.tsx lines 1-384) and the full Auth form             *)
(* (src/src/pages/Auth.tsx lines 385-796), and the dashboard Index behind  *)
(* the auth context and the router (src/unnamed/part_001).                 *)
(*                                                                         *)
(* Strings are sequences of one-character strings, so that replace, slice, *)
(* trim, match and split are computed character by character.              *)
(* An optional value (null / undefined) is None, a present value v is      *)
(* Some(v).  User-visible messages and toast titles are written without    *)
(* their accents.                                                          *)
(*                                                                         *)
(* lastStep, settled, toasts and lastInput describe the latest step only:  *)
(* they let the effect of a handler be stated as a state predicate.        *)
(***************************************************************************)
EXTENDS Integers, Sequences, FiniteSets, TLC

VARIABLES
    screen,         \* which Auth component is mounted: "ruc" or "full"
    page,           \* "init" (rendered, effects not run), "mounted", "crashed", "left"
    ruc,            \* useState('')            : string
    rememberRuc,    \* useState(false)         : boolean
    companyLogo,    \* useState(undefined)     : optional string
    isLoading,      \* useState(false)         : boolean
    errors,         \* useState({})            : record of optional messages ("" = unset)
    availableRucs,  \* useState([])            : sequence of strings (RUC-only screen)
    email,          \* useState('')            : string (full form)
    password,       \* useState('')            : string (full form)
    isLogin,        \* useState(true)          : boolean (full form)
    localStorage,   \* browser local storage: key -> optional value
    calls,          \* pending handleSubmit invocations, each with its closure
    timer,          \* pending setTimeout redirect: optional URL
    location,       \* window.location.href once it was assigned: optional URL
    toasts,         \* the toast() calls the latest step made, by title and variant
    lastStep,       \* what the latest step of a handleSubmit invocation did ("none" after any other step)
    settled,        \* the request the latest step settled, with its response (optional)
    lastInput,      \* text of the latest observed change event on the RUC input (optional)
    lastAccepted,   \* the latest submission handleSubmit accepted, kept over a reload (optional)
    user,           \* useAuth().user    : optional e-mail address
    loading,        \* useAuth().loading : boolean
    route,          \* the router's location: "/auth" or "/"
    signOuts,       \* number of pending signOut() calls of handleSignOut
    effectPending   \* the mounted page rendered with changed [user, loading]: its effect is due

vars == <<screen, page, ruc, rememberRuc, companyLogo, isLoading, errors, availableRucs,
          email, password, isLogin, localStorage, calls, timer, location, toasts,
          lastStep, settled, lastInput,
          lastAccepted, user, loading, route, signOuts, effectPending>>

\* what the auth screens leave alone: the auth context and the router
session == <<user, loading, route, signOuts, effectPending>>

---------------------------------------------------------------------------
(* Bounds of the model *)

\* longest run of digits in a text delivered by a change event
MaxTyped == 12

\* cap on simultaneously pending handleSubmit invocations
MaxInFlight == 2

---------------------------------------------------------------------------
(* Program constants *)

\* .min(11) / .max(11) / .slice(0, 11)
RUC_LEN == 11

\* password: .min(6)
PASSWORD_MIN == 6

\* password: .max(100)
PASSWORD_MAX == 100

\* email: .max(255)
EMAIL_MAX == 255

TARGET_APP_URL ==
    <<"h","t","t","p",":","/","/","l","o","c","a","l","h","o","s","t",":","3","0","0","0">>

MSG_RUC_LEN == "El RUC debe tener 11 digitos"
MSG_RUC_NUM == "El RUC solo debe contener numeros"
MSG_RUC_NOT_FOUND == "RUC no encontrado en el sistema"
MSG_EMAIL == "Ingresa un email valido"
MSG_EMAIL_MAX == "String must contain at most 255 character(s)"
MSG_PASSWORD_MIN == "La contrasena debe tener al menos 6 caracteres"
MSG_PASSWORD_MAX == "String must contain at most 100 character(s)"

TOAST_RUC_INVALID == [title |-> "RUC no valido", variant |-> "destructive"]
TOAST_CONNECTION == [title |-> "Error de conexion", variant |-> "destructive"]
TOAST_WELCOME == [title |-> "Bienvenido", variant |-> "default"]
TOAST_ERROR == [title |-> "Error", variant |-> "destructive"]
TOAST_CREATED == [title |-> "Cuenta creada", variant |-> "default"]

---------------------------------------------------------------------------
(* Optional values and strings *)

None == <<>>
Some(v) == <<v>>
IsSome(o) == o # <<>>
Get(o) == o[1]

Digits == {"0", "1", "2", "3", "4", "5", "6", "7", "8", "9"}
IsDigit(c) == c \in Digits
Letters == {"a", "b", "c", "o", "p", "x"}
IsLetter(c) == c \in Letters
\* the white space String.prototype.trim removes
IsSpace(c) == c \in {" ", "\t", "\n"}

Min(a, b) == IF a < b THEN a ELSE b
Last(s) == s[Len(s)]
Rep(c, n) == [i \in 1..n |-> c]

\* s.slice(from, to) for 0 <= from <= to
Slice(s, from, to) == SubSeq(s, from + 1, Min(to, Len(s)))

\* s.replace(/\D/g, '')
RECURSIVE ReplaceNonDigits(_)
ReplaceNonDigits(s) ==
    IF s = <<>> THEN <<>>
    ELSE (IF IsDigit(Head(s)) THEN <<Head(s)>> ELSE <<>>) \o ReplaceNonDigits(Tail(s))

RECURSIVE TrimStart(_)
TrimStart(s) ==
    IF s # <<>> /\ IsSpace(Head(s)) THEN TrimStart(Tail(s)) ELSE s

RECURSIVE TrimEnd(_)
TrimEnd(s) ==
    IF s # <<>> /\ IsSpace(Last(s)) THEN TrimEnd(SubSeq(s, 1, Len(s) - 1)) ELSE s

\* s.trim()
Trim(s) == TrimEnd(TrimStart(s))

\* /^\d+$/.test(s)
AllDigits(s) == s # <<>> /\ \A i \in 1..Len(s) : IsDigit(s[i])

---------------------------------------------------------------------------
(* Client-side validation: authSchema and validateForm *)

\* the issues zod reports for the ruc field, in the order of the schema's checks
RucIssues(s) ==
    LET t == Trim(s) IN
      (IF Len(t) < RUC_LEN THEN <<MSG_RUC_LEN>> ELSE <<>>)
   \o (IF Len(t) > RUC_LEN THEN <<MSG_RUC_LEN>> ELSE <<>>)
   \o (IF ~AllDigits(t) THEN <<MSG_RUC_NUM>> ELSE <<>>)

\* characters of the local part: [A-Z0-9_'+\-\.] (case-insensitive)
IsLocalChar(c) == IsLetter(c) \/ IsDigit(c) \/ c \in {"_", "'", "+", "-", "."}

\* ([A-Z0-9][A-Z0-9\-]*\.)+[A-Z]{2,}$ on the part after the "@"
RECURSIVE IsDomain(_, _)
IsDomain(d, labels) ==
    LET dots == {i \in 1..Len(d) : d[i] = "."} IN
    IF dots = {}
    THEN /\ labels >= 1
         /\ Len(d) >= 2
         /\ \A i \in 1..Len(d) : IsLetter(d[i])
    ELSE LET i == CHOOSE k \in dots : \A j \in dots : k <= j IN
         /\ i >= 2
         /\ IsLetter(d[1]) \/ IsDigit(d[1])
         /\ \A j \in 2..(i - 1) : IsLetter(d[j]) \/ IsDigit(d[j]) \/ d[j] = "-"
         /\ IsDomain(SubSeq(d, i + 1, Len(d)), labels + 1)

\* zod's email check: /^(?!\.)(?!.*\.\.)([A-Z0-9_'+\-\.]*)[A-Z0-9_+-]@([A-Z0-9][A-Z0-9\-]*\.)+[A-Z]{2,}$/i
IsEmail(s) ==
    /\ \A i \in 1..(Len(s) - 1) : ~(s[i] = "." /\ s[i + 1] = ".")
    /\ \E at \in 2..Len(s) :
         /\ s[at] = "@"
         /\ s[1] # "."
         /\ \A i \in 1..(at - 1) : IsLocalChar(s[i])
         /\ s[at - 1] \notin {".", "'"}
         /\ IsDomain(SubSeq(s, at + 1, Len(s)), 0)

EmailIssues(s) ==
    LET t == Trim(s) IN
      (IF ~IsEmail(t) THEN <<MSG_EMAIL>> ELSE <<>>)
   \o (IF Len(t) > EMAIL_MAX THEN <<MSG_EMAIL_MAX>> ELSE <<>>)

PasswordIssues(s) ==
      (IF Len(s) < PASSWORD_MIN THEN <<MSG_PASSWORD_MIN>> ELSE <<>>)
   \o (IF Len(s) > PASSWORD_MAX THEN <<MSG_PASSWORD_MAX>> ELSE <<>>)

\* result.error.errors.forEach(...): the last issue of a field is the one kept
FieldError(issues) == IF issues = <<>> THEN "" ELSE Last(issues)

NoErrors == [ruc |-> "", email |-> "", password |-> ""]

\* RUC-only screen: authSchema.safeParse({ ruc }).success
RucFormValid(r) == RucIssues(r) = <<>>

\* RUC-only screen: the fieldErrors validateForm stores
RucFormErrors(r) == [NoErrors EXCEPT !.ruc = FieldError(RucIssues(r))]

\* full form: authSchema.safeParse({ ruc, email, password }).success
FullFormValid(r, e, p) ==
    RucIssues(r) = <<>> /\ EmailIssues(e) = <<>> /\ PasswordIssues(p) = <<>>

\* full form: the fieldErrors validateForm stores
FullFormErrors(r, e, p) ==
    [ruc |-> FieldError(RucIssues(r)),
     email |-> FieldError(EmailIssues(e)),
     password |-> FieldError(PasswordIssues(p))]

---------------------------------------------------------------------------
(* Parsing the permitted RUCs out of a 400 response's message *)

MARKER == <<"R","U","C","s"," ","p","e","r","m","i","t","i","d","o","s",":"," ">>

\* the character class [\d, ]
InListClass(c) == IsDigit(c) \/ c = "," \/ c = " "

\* positions where /RUCs permitidos: ([\d, ]+)/ can match
MatchStarts(msg) ==
    {i \in 1..Len(msg) :
        /\ i + Len(MARKER) <= Len(msg)
        /\ SubSeq(msg, i, i + Len(MARKER) - 1) = MARKER
        /\ InListClass(msg[i + Len(MARKER)])}

\* end of the greedy run of [\d, ] that starts at position from
RunEnd(msg, from) ==
    CHOOSE j \in from..Len(msg) :
        /\ \A k \in from..j : InListClass(msg[k])
        /\ (j = Len(msg) \/ ~InListClass(msg[j + 1]))

\* msg.match(/RUCs permitidos: ([\d, ]+)/): the capture group of the leftmost match
MatchPermitidos(msg) ==
    IF MatchStarts(msg) = {} THEN None
    ELSE LET i == CHOOSE k \in MatchStarts(msg) : \A j \in MatchStarts(msg) : k <= j
             from == i + Len(MARKER)
         IN  Some(SubSeq(msg, from, RunEnd(msg, from)))

\* s.split(', ')
RECURSIVE SplitCommaSpace(_)
SplitCommaSpace(s) ==
    LET hits == {i \in 1..(Len(s) - 1) : s[i] = "," /\ s[i + 1] = " "} IN
    IF hits = {} THEN <<s>>
    ELSE LET i == CHOOSE k \in hits : \A j \in hits : k <= j IN
         <<SubSeq(s, 1, i - 1)>> \o SplitCommaSpace(SubSeq(s, i + 2, Len(s)))

\* match[1].split(', ').map(r => r.trim())
ParseRucsPermitidos(capture) ==
    LET parts == SplitCommaSpace(capture) IN
    [i \in 1..Len(parts) |-> Trim(parts[i])]

---------------------------------------------------------------------------
(* Inputs: texts typed or pasted, stored values, responses *)

\* n digits, the last one different from the others
DigitRun(d, n) == [i \in 1..n |-> IF i = n THEN "9" ELSE d]

R1 == DigitRun("1", RUC_LEN)
R2 == DigitRun("2", RUC_LEN)

Junk == {<<>>, <<"a">>, <<" ">>, <<"-", "x">>}

\* a run of n digits with junk after its first k characters
Text(d, n, k, j) ==
    SubSeq(DigitRun(d, n), 1, Min(k, n)) \o j \o SubSeq(DigitRun(d, n), Min(k, n) + 1, n)

\* texts a change event on the RUC input can deliver
InputTexts ==
    {Text(d, n, k, j) : d \in {"1", "2"}, n \in 0..MaxTyped, k \in {0, 1, RUC_LEN}, j \in Junk}

\* the texts typed into the RUC-only screen: those around the accepted length
TypedTexts ==
    {Text(d, n, 1, <<"-", "x">>) : d \in {"1", "2"}, n \in {0} \cup (RUC_LEN - 1)..MaxTyped}

\* the texts typed into the RUC input of the full form
FullTypedTexts ==
    {Text("1", RUC_LEN - 1, 1, <<" ">>), Text("1", RUC_LEN, 1, <<"a">>),
     Text("2", MaxTyped, RUC_LEN, <<"-", "x">>)}

LOGO_URL == "https://logo/r1.png"

LOGOS_R1 == Some([parses |-> TRUE, entries |-> {<<R1, LOGO_URL>>}])
LOGOS_BROKEN == Some([parses |-> FALSE, entries |-> {}])

Storage(remembered, current, logos) ==
    [remembered_ruc |-> remembered, current_ruc |-> current, company_logos |-> logos]

\* what local storage can hold before the screen is mounted
InitialStorage ==
    {Storage(None, None, None),
     Storage(Some(R1), Some(R1), LOGOS_R1),
     Storage(Some(<<" ">> \o R1), Some(R2), None),
     Storage(Some(<<"a", "b">>), None, LOGOS_R1),
     Storage(Some(R2), None, LOGOS_BROKEN),
     Storage(None, Some(R2), LOGOS_BROKEN)}

\* logos[r] of the parsed company_logos object
LogoOf(logos, r) ==
    IF \E e \in logos.entries : e[1] = r
    THEN Some((CHOOSE e \in logos.entries : e[1] = r)[2])
    ELSE None

\* how the fetch settles: a network error, or a response with a status
FetchOutcomes ==
    {[kind |-> "network", status |-> 0]}
        \cup [kind : {"response"}, status : {200, 204, 400, 404, 500}]

\* mutant: every status below 500 counts as success
ResponseOkBelow500(r) == r.status >= 200 /\ r.status < 500

\* response.ok
ResponseOk(r) == r.status >= 200 /\ r.status <= 299

RECURSIVE Join(_, _)
Join(list, sep) ==
    IF Len(list) = 0 THEN <<>>
    ELSE IF Len(list) = 1 THEN list[1]
    ELSE list[1] \o sep \o Join(Tail(list), sep)

MSG_PREFIX == <<"N", "o", ".", " ">>

\* bodies of a 400 response; listed is the list of RUCs the message was built from
ListBodies ==
    {[kind |-> "object",
      message |-> Some(MSG_PREFIX \o MARKER \o Join(l, sep) \o trail),
      listed |-> l] :
        l \in {<<R1>>, <<R2, R1>>},
        sep \in {<<",", " ">>, <<",">>},
        trail \in {<<>>, <<" ">>, <<",", " ">>, <<".">>}}

ResponseBodies ==
    ListBodies \cup
    {[kind |-> "unparseable", message |-> None, listed |-> <<>>],
     [kind |-> "null", message |-> None, listed |-> <<>>],
     [kind |-> "numberMessage", message |-> None, listed |-> <<>>],
     [kind |-> "object", message |-> None, listed |-> <<>>],
     [kind |-> "object", message |-> Some(MSG_PREFIX), listed |-> <<>>],
     [kind |-> "object", message |-> Some(MSG_PREFIX \o MARKER), listed |-> <<>>]}

NoBody == [kind |-> "none", message |-> None, listed |-> <<>>]

---------------------------------------------------------------------------
(* Initial state: the component rendered with its useState defaults *)

\* the auth screen after construction: the useState initial values
AuthInit ==
    /\ screen \in {"ruc", "full"}
    /\ page = "init"
    /\ ruc = <<>>
    /\ rememberRuc = FALSE
    /\ companyLogo = None
    /\ isLoading = FALSE
    /\ errors = NoErrors
    /\ availableRucs = <<>>
    /\ email = <<>>
    /\ password = <<>>
    /\ isLogin = TRUE
    /\ localStorage \in InitialStorage
    /\ calls = <<>>
    /\ timer = None
    /\ location = None
    /\ toasts = <<>>
    /\ lastStep = "none"
    /\ settled = None
    /\ lastInput = None
    /\ lastAccepted = None

\* the auth screen on its own: nobody is signed in and the auth context is ready
Init ==
    /\ AuthInit
    /\ user = None
    /\ loading = FALSE
    /\ route = "/auth"
    /\ signOuts = 0
    /\ effectPending = FALSE

formState == <<ruc, rememberRuc, companyLogo, isLoading, errors, availableRucs,
               email, password, isLogin>>

\* a step that is no step of a handleSubmit invocation
Note(step) == lastStep' = step /\ lastInput' = None /\ settled' = None /\ toasts' = <<>>

RemoveAt(seq, i) == SubSeq(seq, 1, i - 1) \o SubSeq(seq, i + 1, Len(seq))

---------------------------------------------------------------------------
(* Both screens: the mount effect that loads the remembered RUC *)

\* JSON.parse(localStorage.getItem(COMPANY_LOGO_KEY) || '{}') throws
LogosUnparseable ==
    IsSome(localStorage.company_logos) /\ ~Get(localStorage.company_logos).parses

\* logos[savedRuc], when truthy
CachedLogo(savedRuc) ==
    IF IsSome(localStorage.company_logos)
    THEN LogoOf(Get(localStorage.company_logos), savedRuc)
    ELSE None

Mount ==
    /\ page = "init"
    /\ LET savedRuc == localStorage.remembered_ruc IN
       IF IsSome(savedRuc) /\ Get(savedRuc) # <<>>
       THEN IF LogosUnparseable
            THEN /\ page' = "crashed"
                 /\ UNCHANGED <<ruc, rememberRuc, companyLogo>>
            ELSE /\ page' = "mounted"
                 /\ ruc' = Get(savedRuc)
                 /\ rememberRuc' = TRUE
                 /\ companyLogo' = CachedLogo(Get(savedRuc))
       ELSE /\ page' = "mounted"
            /\ UNCHANGED <<ruc, rememberRuc, companyLogo>>
    /\ Note("mount")
    /\ UNCHANGED <<session, lastAccepted, screen, isLoading, errors, availableRucs, email,
                   password, isLogin, localStorage, calls, timer, location>>

\* the src of the avatar's <img>, when the form shows the avatar with an image:
\* {ruc.length === 11 ? <CompanyAvatar ruc={ruc} logoUrl={companyLogo} /> : ...}
AvatarLogo ==
    IF page = "mounted" /\ Len(ruc) = RUC_LEN /\ IsSome(companyLogo)
    THEN companyLogo
    ELSE None

---------------------------------------------------------------------------
(* RUC-only screen: user events *)

\* mutant: the text is cut to 11 characters before its non-digits are removed
RucOnChangeSliceFirst(text) == ReplaceNonDigits(Slice(text, 0, RUC_LEN))

\* e.target.value.replace(/\D/g, '').slice(0, 11)
RucOnChangeValue(text) == Slice(ReplaceNonDigits(text), 0, RUC_LEN)

\* disabled={isLoading} on the RUC input
RucInputEnabled == ~isLoading

\* mutant: the submit button is not disabled while loading
SubmitAlwaysEnabled == TRUE

\* disabled={isLoading} on the submit button (and on the input, for Enter)
SubmitEnabled == ~isLoading

OnChangeRuc(text) ==
    /\ screen = "ruc"
    /\ page = "mounted"
    /\ RucInputEnabled
    /\ ruc' = RucOnChangeValue(text)
    /\ UNCHANGED <<session, lastAccepted, screen, page, rememberRuc, companyLogo,
                   isLoading, errors, availableRucs, email, password, isLogin,
                   localStorage, calls, timer, location>>

ChangeRuc ==
    \E text \in TypedTexts : OnChangeRuc(text) /\ Note("none")

\* onCheckedChange={(checked) => setRememberRuc(checked === true)}
ToggleRemember ==
    /\ screen = "ruc"
    /\ page = "mounted"
    /\ \E checked \in BOOLEAN : rememberRuc' = checked
    /\ Note("none")
    /\ UNCHANGED <<session, lastAccepted, screen, page, ruc, companyLogo, isLoading,
                   errors, availableRucs, email, password, isLogin, localStorage, calls,
                   timer, location>>

\* onClick={() => setRuc(availableRuc)} of a suggested RUC
ClickSuggested ==
    /\ screen = "ruc"
    /\ page = "mounted"
    /\ \E i \in 1..Len(availableRucs) : ruc' = availableRucs[i]
    /\ Note("none")
    /\ UNCHANGED <<session, lastAccepted, screen, page, rememberRuc, companyLogo,
                   isLoading, errors, availableRucs, email, password, isLogin,
                   localStorage, calls, timer, location>>

---------------------------------------------------------------------------
(* RUC-only screen: handleSubmit and validateRucWithAPI *)

\* the invocation's closure: the state of the render the submit event came from
NewCall(stage) ==
    [stage |-> stage, ruc |-> ruc, rememberRuc |-> rememberRuc, isLogin |-> isLogin]

\* mutant: handleSubmit without setAvailableRucs([])
SubmitKeepsSuggestions ==
    /\ screen = "ruc"
    /\ page = "mounted"
    /\ SubmitEnabled
    /\ Len(calls) < MaxInFlight
    /\ toasts' = <<>>
    /\ lastInput' = None
    /\ settled' = None
    /\ UNCHANGED availableRucs
    /\ IF ~RucFormValid(ruc)
       THEN /\ errors' = RucFormErrors(ruc)
            /\ lastStep' = "rejected"
            /\ UNCHANGED <<isLoading, calls>>
       ELSE /\ errors' = NoErrors
            /\ isLoading' = TRUE
            /\ calls' = Append(calls, NewCall("fetch"))
            /\ lastStep' = "sent"
    /\ UNCHANGED <<session, lastAccepted, screen, page, ruc, rememberRuc, companyLogo,
                   email, password, isLogin, localStorage, timer, location>>

\* the part of handleSubmit before the first await
Submit ==
    /\ screen = "ruc"
    /\ page = "mounted"
    /\ SubmitEnabled
    /\ Len(calls) < MaxInFlight
    /\ toasts' = <<>>
    /\ lastInput' = None
    /\ settled' = None
    /\ IF ~RucFormValid(ruc)
       THEN /\ errors' = RucFormErrors(ruc)
            /\ lastStep' = "rejected"
            /\ UNCHANGED <<isLoading, availableRucs, calls>>
       ELSE /\ errors' = NoErrors
            /\ isLoading' = TRUE
            /\ availableRucs' = <<>>
            /\ calls' = Append(calls, NewCall("fetch"))
            /\ lastStep' = "sent"
    /\ UNCHANGED <<session, lastAccepted, screen, page, ruc, rememberRuc, companyLogo,
                   email, password, isLogin, localStorage, timer, location>>

\* mutant: the redirect carries no RUC
RedirectUrlWithoutRuc(r) == TARGET_APP_URL

\* `${TARGET_APP_URL}?ruc=${ruc}`
RedirectUrl(r) == TARGET_APP_URL \o <<"?", "r", "u", "c", "=">> \o r

\* mutant: the checkbox is read when the response arrives, not at submission
RememberedAfterCurrentState(call) == IF rememberRuc THEN Some(call.ruc) ELSE None

\* what handleSubmit stores under remembered_ruc for an accepted RUC
RememberedAfter(call) == IF call.rememberRuc THEN Some(call.ruc) ELSE None

\* mutant: the success path re-enables the form like the failure path
AcceptedResetsLoading(call) ==
    /\ localStorage' = [localStorage EXCEPT !.current_ruc = Some(call.ruc),
                                            !.remembered_ruc = RememberedAfter(call)]
    /\ toasts' = <<TOAST_WELCOME>>
    /\ timer' = Some(RedirectUrl(call.ruc))
    /\ lastStep' = "accepted"
    /\ lastAccepted' = Some([ruc |-> call.ruc, rememberRuc |-> call.rememberRuc])
    /\ isLoading' = FALSE
    /\ UNCHANGED <<errors, availableRucs>>

\* handleSubmit after validateRucWithAPI returned true
Accepted(call) ==
    /\ localStorage' = [localStorage EXCEPT !.current_ruc = Some(call.ruc),
                                            !.remembered_ruc = RememberedAfter(call)]
    /\ toasts' = <<TOAST_WELCOME>>
    /\ timer' = Some(RedirectUrl(call.ruc))
    /\ lastStep' = "accepted"
    /\ lastAccepted' = Some([ruc |-> call.ruc, rememberRuc |-> call.rememberRuc])
    /\ UNCHANGED <<isLoading, errors, availableRucs>>

\* mutant: the failure path does not reset isLoading
ConnectionErrorKeepsLoading ==
    /\ toasts' = <<TOAST_CONNECTION>>
    /\ lastStep' = "connectionError"
    /\ UNCHANGED <<isLoading, errors, availableRucs, localStorage, timer, lastAccepted>>

\* mutant: the catch block also sets the inline RUC-not-found error
ConnectionErrorWithFieldError ==
    /\ toasts' = <<TOAST_CONNECTION>>
    /\ isLoading' = FALSE
    /\ errors' = [NoErrors EXCEPT !.ruc = MSG_RUC_NOT_FOUND]
    /\ lastStep' = "connectionError"
    /\ UNCHANGED <<availableRucs, localStorage, timer, lastAccepted>>

\* the catch block of validateRucWithAPI, then handleSubmit's setIsLoading(false)
ConnectionError ==
    /\ toasts' = <<TOAST_CONNECTION>>
    /\ isLoading' = FALSE
    /\ lastStep' = "connectionError"
    /\ UNCHANGED <<errors, availableRucs, localStorage, timer, lastAccepted>>

\* the fetch of pending invocation i settles
FetchSettles ==
    /\ screen = "ruc"
    /\ page = "mounted"
    /\ \E i \in 1..Len(calls), r \in FetchOutcomes :
         /\ calls[i].stage = "fetch"
         /\ settled' = Some([ruc |-> calls[i].ruc, rememberRuc |-> calls[i].rememberRuc,
                             kind |-> r.kind, status |-> r.status, body |-> NoBody])
         /\ IF r.kind = "network"
            THEN ConnectionError /\ calls' = RemoveAt(calls, i)
            ELSE IF ResponseOk(r)
            THEN Accepted(calls[i]) /\ calls' = RemoveAt(calls, i)
            ELSE IF r.status = 400
            THEN /\ calls' = [calls EXCEPT ![i].stage = "json"]
                 /\ lastStep' = "awaitJson"
                 /\ toasts' = <<>>
                 /\ UNCHANGED <<isLoading, errors, availableRucs, localStorage, timer,
                                lastAccepted>>
            ELSE ConnectionError /\ calls' = RemoveAt(calls, i)
    /\ lastInput' = None
    /\ UNCHANGED <<session, screen, page, ruc, rememberRuc, companyLogo, email, password,
                   isLogin, location>>

\* mutant: the 400 branch shows the toast but sets no inline error
RucNotFoundWithoutFieldError(body) ==
    /\ toasts' = <<TOAST_RUC_INVALID>>
    /\ isLoading' = FALSE
    /\ lastStep' = "notFound"
    /\ UNCHANGED <<errors, availableRucs, localStorage, timer>>

\* mutant: a RUC that was not found is also forgotten
RucNotFoundForgetsRuc(body) ==
    /\ availableRucs' = IF IsSome(body.message) /\ IsSome(MatchPermitidos(Get(body.message)))
                        THEN ParseRucsPermitidos(Get(MatchPermitidos(Get(body.message))))
                        ELSE availableRucs
    /\ errors' = [NoErrors EXCEPT !.ruc = MSG_RUC_NOT_FOUND]
    /\ toasts' = <<TOAST_RUC_INVALID>>
    /\ isLoading' = FALSE
    /\ lastStep' = "notFound"
    /\ localStorage' = [localStorage EXCEPT !.remembered_ruc = None]
    /\ UNCHANGED timer

\* the 400 branch of validateRucWithAPI once the body was parsed
RucNotFound(body) ==
    LET match == IF IsSome(body.message) THEN MatchPermitidos(Get(body.message)) ELSE None IN
    /\ availableRucs' = IF IsSome(match) THEN ParseRucsPermitidos(Get(match))
                                         ELSE availableRucs
    /\ errors' = [NoErrors EXCEPT !.ruc = MSG_RUC_NOT_FOUND]
    /\ toasts' = <<TOAST_RUC_INVALID>>
    /\ isLoading' = FALSE
    /\ lastStep' = "notFound"
    /\ UNCHANGED <<localStorage, timer>>

\* response.json() of a 400 response settles for pending invocation i
JsonSettles ==
    /\ screen = "ruc"
    /\ page = "mounted"
    /\ \E i \in 1..Len(calls), body \in ResponseBodies :
         /\ calls[i].stage = "json"
         /\ settled' = Some([ruc |-> calls[i].ruc, rememberRuc |-> calls[i].rememberRuc,
                             kind |-> "response", status |-> 400, body |-> body])
         /\ calls' = RemoveAt(calls, i)
         /\ IF body.kind = "object" THEN RucNotFound(body) ELSE ConnectionError
    /\ lastInput' = None
    /\ UNCHANGED <<session, lastAccepted, screen, page, ruc, rememberRuc, companyLogo,
                   email, password, isLogin, location>>

\* the setTimeout callback: window.location.href = ...
RedirectFires ==
    /\ page = "mounted"
    /\ IsSome(timer)
    /\ location' = timer
    /\ timer' = None
    /\ page' = "left"
    /\ calls' = <<>>
    /\ lastStep' = "redirected"
    /\ lastInput' = None
    /\ toasts' = <<>>
    /\ settled' = None
    /\ UNCHANGED <<session, lastAccepted, screen, formState, localStorage>>

---------------------------------------------------------------------------
(* Full form: user events *)

EMAIL_OK == <<"a", "@", "b", ".", "c", "o">>

EmailTexts == {EMAIL_OK, <<"a", "b">>}

PasswordTexts == {Rep("p", n) : n \in {PASSWORD_MIN - 1, PASSWORD_MIN}}

\* e.target.value.replace(/\D/g, '').slice(0, 11)
FullRucOnChangeValue(text) == Slice(ReplaceNonDigits(text), 0, RUC_LEN)

\* disabled={isLoading} on the three inputs
FullInputEnabled == ~isLoading

\* disabled={isLoading} on the submit button
FullSubmitEnabled == ~isLoading

FullOnChangeRuc(text) ==
    /\ screen = "full"
    /\ page = "mounted"
    /\ FullInputEnabled
    /\ ruc' = FullRucOnChangeValue(text)
    /\ UNCHANGED <<session, lastAccepted, screen, page, rememberRuc, companyLogo,
                   isLoading, errors, availableRucs, email, password, isLogin,
                   localStorage, calls, timer, location>>

FullChangeRuc ==
    \E text \in FullTypedTexts : FullOnChangeRuc(text) /\ Note("none")

\* onChange={(e) => setEmail(e.target.value)}
ChangeEmail ==
    /\ screen = "full"
    /\ page = "mounted"
    /\ FullInputEnabled
    /\ \E text \in EmailTexts : email' = text
    /\ Note("none")
    /\ UNCHANGED <<session, lastAccepted, screen, page, ruc, rememberRuc, companyLogo,
                   isLoading, errors, availableRucs, password, isLogin, localStorage,
                   calls, timer, location>>

\* onChange={(e) => setPassword(e.target.value)}
ChangePassword ==
    /\ screen = "full"
    /\ page = "mounted"
    /\ FullInputEnabled
    /\ \E text \in PasswordTexts : password' = text
    /\ Note("none")
    /\ UNCHANGED <<session, lastAccepted, screen, page, ruc, rememberRuc, companyLogo,
                   isLoading, errors, availableRucs, email, isLogin, localStorage, calls,
                   timer, location>>

FullToggleRemember ==
    /\ screen = "full"
    /\ page = "mounted"
    /\ \E checked \in BOOLEAN : rememberRuc' = checked
    /\ Note("none")
    /\ UNCHANGED <<session, lastAccepted, screen, page, ruc, companyLogo, isLoading,
                   errors, availableRucs, email, password, isLogin, localStorage, calls,
                   timer, location>>

\* onClick={() => { setIsLogin(!isLogin); setErrors({}); }}
ToggleMode ==
    /\ screen = "full"
    /\ page = "mounted"
    /\ isLogin' = ~isLogin
    /\ errors' = NoErrors
    /\ Note("none")
    /\ UNCHANGED <<session, lastAccepted, screen, page, ruc, rememberRuc, companyLogo,
                   isLoading, availableRucs, email, password, localStorage, calls, timer,
                   location>>

---------------------------------------------------------------------------
(* Full form: handleSubmit *)

\* mutant: an unchecked box leaves the remembered RUC in place
FullRememberedKeepsOld == IF rememberRuc THEN Some(ruc) ELSE localStorage.remembered_ruc

\* rememberRuc ? setItem(REMEMBER_RUC_KEY, ruc) : removeItem(REMEMBER_RUC_KEY)
FullRemembered == IF rememberRuc THEN Some(ruc) ELSE None

\* the part of handleSubmit before the await of signIn / signUp
FullSubmit ==
    /\ screen = "full"
    /\ page = "mounted"
    /\ FullSubmitEnabled
    /\ Len(calls) < MaxInFlight
    /\ toasts' = <<>>
    /\ lastInput' = None
    /\ settled' = None
    /\ IF ~FullFormValid(ruc, email, password)
       THEN /\ errors' = FullFormErrors(ruc, email, password)
            /\ lastStep' = "rejected"
            /\ UNCHANGED <<isLoading, localStorage, calls>>
       ELSE /\ errors' = NoErrors
            /\ isLoading' = TRUE
            /\ localStorage' = [localStorage EXCEPT !.remembered_ruc = FullRemembered]
            /\ calls' = Append(calls, NewCall("auth"))
            /\ lastStep' = "sent"
    /\ UNCHANGED <<session, lastAccepted, screen, page, ruc, rememberRuc, companyLogo,
                   availableRucs, email, password, isLogin, timer, location>>

\* how signIn / signUp settles
AuthOutcomes == {"ok", "error", "throws"}

\* the toasts of the try / catch around signIn / signUp
AuthToasts(call, result) ==
    IF result = "throws" THEN <<TOAST_ERROR>>
    ELSE IF result = "error" THEN <<TOAST_ERROR>>
    ELSE IF ~call.isLogin THEN <<TOAST_CREATED>>
    ELSE <<>>

\* the finally block: setIsLoading(false)
FullFinally == isLoading' = FALSE

\* signIn / signUp of pending invocation i settles
AuthSettles ==
    /\ screen = "full"
    /\ page = "mounted"
    /\ \E i \in 1..Len(calls), result \in AuthOutcomes :
         /\ calls[i].stage = "auth"
         /\ toasts' = AuthToasts(calls[i], result)
         /\ lastStep' = IF result = "ok" THEN "authOk" ELSE "authFailed"
         /\ settled' = Some([ruc |-> calls[i].ruc, rememberRuc |-> calls[i].rememberRuc,
                             kind |-> result, status |-> 0, body |-> NoBody])
         /\ calls' = RemoveAt(calls, i)
    /\ FullFinally
    /\ lastInput' = None
    /\ UNCHANGED <<session, lastAccepted, screen, page, ruc, rememberRuc, companyLogo,
                   errors, availableRucs, email, password, isLogin, localStorage, timer,
                   location>>

---------------------------------------------------------------------------
(* Specifications *)

Next ==
    \/ Mount
    \/ ChangeRuc
    \/ ToggleRemember
    \/ ClickSuggested
    \/ Submit
    \/ FetchSettles
    \/ JsonSettles
    \/ RedirectFires
    \/ FullChangeRuc
    \/ ChangeEmail
    \/ ChangePassword
    \/ FullToggleRemember
    \/ ToggleMode
    \/ FullSubmit
    \/ AuthSettles

Spec == Init /\ [][Next]_vars

\* a pending request, body read, sign-in call or timer eventually settles
FairSpec ==
    /\ Spec
    /\ WF_vars(FetchSettles)
    /\ WF_vars(JsonSettles)
    /\ WF_vars(AuthSettles)
    /\ WF_vars(RedirectFires)

\* the auth screen is loaded again: a new component instance in its initial
\* state; pending requests and the redirect timer die with the old document
Reload ==
    /\ page # "init"
    /\ page' = "init"
    /\ ruc' = <<>>
    /\ rememberRuc' = FALSE
    /\ companyLogo' = None
    /\ isLoading' = FALSE
    /\ errors' = NoErrors
    /\ availableRucs' = <<>>
    /\ email' = <<>>
    /\ password' = <<>>
    /\ isLogin' = TRUE
    /\ calls' = <<>>
    /\ timer' = None
    /\ location' = None
    /\ Note("none")
    /\ UNCHANGED <<session, lastAccepted, screen, localStorage>>

\* the RUC-only screen, visited again and again
ReloadNext ==
    \/ Mount
    \/ ChangeRuc
    \/ ToggleRemember
    \/ ClickSuggested
    \/ Submit
    \/ FetchSettles
    \/ JsonSettles
    \/ RedirectFires
    \/ Reload

ReloadInit == Init /\ screen = "ruc"

ReloadSpec == ReloadInit /\ [][ReloadNext]_vars

---------------------------------------------------------------------------
(* The dashboard (Index) behind the auth context and the router *)

\* the e-mail addresses of the accounts that can be signed in
Users == {EMAIL_OK, <<"x", "@", "b", ".", "c", "o">>}

UserValues == {None} \cup {Some(u) : u \in Users}

\* mutant: the user is tested before loading
IndexRenderUserFirst ==
    IF IsSome(user)
    THEN [kind |-> "content", email |-> user, signOutButton |-> TRUE]
    ELSE IF loading
    THEN [kind |-> "spinner", email |-> None, signOutButton |-> FALSE]
    ELSE [kind |-> "null", email |-> None, signOutButton |-> FALSE]

\* what Index returns: the spinner, null, or the page with {user.email} and the
\* sign-out button
IndexRender ==
    IF loading
    THEN [kind |-> "spinner", email |-> None, signOutButton |-> FALSE]
    ELSE IF ~IsSome(user)
    THEN [kind |-> "null", email |-> None, signOutButton |-> FALSE]
    ELSE [kind |-> "content", email |-> user, signOutButton |-> TRUE]

\* what the dashboard steps leave alone
authScreen == <<screen, page, formState, localStorage, calls, timer, location,
                lastAccepted>>

\* the auth context publishes a new user or loading value: the mounted page
\* renders again and its effect is due
AuthStateChange ==
    /\ \E u \in UserValues, l \in BOOLEAN :
         /\ <<u, l>> # <<user, loading>>
         /\ user' = u
         /\ loading' = l
    /\ effectPending' = TRUE
    /\ Note("none")
    /\ UNCHANGED <<authScreen, route, signOuts>>

\* Index: useEffect(() => { if (!loading && !user) navigate('/auth') })
IndexEffect ==
    /\ route = "/"
    /\ effectPending
    /\ IF ~loading /\ ~IsSome(user)
       THEN /\ route' = "/auth"
            /\ effectPending' = TRUE
            /\ Note("guardRedirect")
       ELSE /\ route' = route
            /\ effectPending' = FALSE
            /\ Note("none")
    /\ UNCHANGED <<authScreen, user, loading, signOuts>>

\* Auth (full form): useEffect(() => { if (!loading && user) navigate('/') })
AuthEffect ==
    /\ route = "/auth"
    /\ effectPending
    /\ IF ~loading /\ IsSome(user)
       THEN /\ route' = "/"
            /\ effectPending' = TRUE
            /\ Note("authRedirect")
       ELSE /\ route' = route
            /\ effectPending' = FALSE
            /\ Note("none")
    /\ UNCHANGED <<authScreen, user, loading, signOuts>>

\* handleSignOut up to its await: the click on the sign-out button
HandleSignOut ==
    /\ route = "/"
    /\ IndexRender.signOutButton
    /\ signOuts < MaxInFlight
    /\ signOuts' = signOuts + 1
    /\ Note("signOutCalled")
    /\ UNCHANGED <<authScreen, user, loading, route, effectPending>>

\* how signOut() settles
SignOutOutcomes == {"ok", "throws"}

\* a pending signOut() settles; handleSignOut goes on to navigate('/auth')
SignOutSettles ==
    /\ signOuts > 0
    /\ signOuts' = signOuts - 1
    /\ \E result \in SignOutOutcomes :
         /\ settled' = Some([kind |-> result])
         /\ IF result = "ok"
            THEN /\ route' = "/auth"
                 /\ effectPending' = (route = "/" \/ effectPending)
                 /\ lastStep' = "signedOut"
            ELSE /\ lastStep' = "signOutFailed"
                 /\ UNCHANGED <<route, effectPending>>
    /\ lastInput' = None
    /\ toasts' = <<>>
    /\ UNCHANGED <<authScreen, user, loading>>

\* the application opened at either route, the auth context in any state
DashInit ==
    /\ AuthInit
    /\ screen = "full"
    /\ user \in UserValues
    /\ loading \in BOOLEAN
    /\ route \in {"/", "/auth"}
    /\ signOuts = 0
    /\ effectPending = TRUE

DashNext ==
    \/ AuthStateChange
    \/ IndexEffect
    \/ AuthEffect
    \/ HandleSignOut
    \/ SignOutSettles

\* a due effect runs and a pending signOut() settles
DashSpec ==
    /\ DashInit
    /\ [][DashNext]_vars
    /\ WF_vars(IndexEffect)
    /\ WF_vars(AuthEffect)
    /\ WF_vars(SignOutSettles)

\* change events on the RUC input alone, each observed with the text it delivered
ObservedChangeRuc ==
    \E text \in InputTexts :
        /\ OnChangeRuc(text) \/ FullOnChangeRuc(text)
        /\ lastInput' = Some(text)
        /\ UNCHANGED <<lastStep, settled, toasts>>

OnChangeNext == Mount \/ ObservedChangeRuc

OnChangeSpec == Init /\ [][OnChangeNext]_vars

---------------------------------------------------------------------------
(* Claims *)

\* exactly 11 numeric digits
IsExactRuc(r) == Len(r) = RUC_LEN /\ \A i \in 1..Len(r) : IsDigit(r[i])

IsSettleStep == lastStep \in {"accepted", "notFound", "connectionError"}

\* C1: in the RUC-only screen a submit event sends the validation request only
\* when the ruc state is exactly 11 numeric digits, whatever put the value there
\* (typing, the prefill from remembered_ruc, a suggested RUC); otherwise no
\* request is sent, isLoading stays false and errors.ruc is set.
C1_RequestOnlyForExactRuc ==
    screen = "ruc" =>
        /\ lastStep = "sent" => IsExactRuc(ruc)
        /\ lastStep = "rejected" =>
             /\ ~IsExactRuc(ruc)
             /\ calls = <<>>
             /\ ~isLoading
             /\ errors.ruc # ""

\* C2: after a change event on the RUC input of either screen, ruc is the
\* delivered text without its non-digit characters, cut to its first 11
\* characters: digits only, at most 11 of them.
C2_ChangeStripsAndTruncates ==
    IsSome(lastInput) =>
        LET digits == SelectSeq(Get(lastInput), IsDigit) IN
        /\ Len(ruc) = Min(Len(digits), RUC_LEN)
        /\ \A i \in 1..Len(ruc) : ruc[i] = digits[i] /\ IsDigit(ruc[i])
        /\ Len(ruc) <= RUC_LEN

C2_Witness ==
    /\ screen = "full"
    /\ IsSome(lastInput)
    /\ Len(SelectSeq(Get(lastInput), IsDigit)) > RUC_LEN
    /\ \E i \in 1..RUC_LEN : ~IsDigit(Get(lastInput)[i])
    /\ Len(ruc) = RUC_LEN

\* C3 (as claimed): a redirect is scheduled only after the validation request
\* returned a 200 response, to the target URL with ?ruc= and the RUC sent in the
\* request header.
C3_RedirectOnlyAfter200 ==
    lastStep = "accepted" =>
        /\ Get(settled).status = 200
        /\ timer = Some(RedirectUrl(Get(settled).ruc))

\* C3 (amended): a redirect is scheduled only by the step that handles a
\* response with a 2xx status, to the target URL followed by ?ruc= and exactly
\* the RUC sent in the request header; the page is left only for the scheduled
\* URL; a failed validation schedules no redirect.
C3_RedirectOnlyAfterOk ==
    [][/\ (timer' # timer /\ IsSome(timer')) =>
            /\ lastStep' = "accepted"
            /\ Get(settled').kind = "response"
            /\ Get(settled').status \in 200..299
            /\ timer' = Some(TARGET_APP_URL \o <<"?", "r", "u", "c", "=">> \o Get(settled').ruc)
       /\ location' # location => (IsSome(timer) /\ location' = timer)
       /\ lastStep' \in {"notFound", "connectionError", "awaitJson"} =>
            (timer' = None /\ location' = None)]_vars

C3_Witness ==
    /\ page = "left"
    /\ location = Some(TARGET_APP_URL \o <<"?", "r", "u", "c", "=">> \o R1)

\* C4: after a 400 response whose message carries 'RUCs permitidos: ' and a
\* comma-separated list, availableRucs is exactly the listed RUCs, in order, each
\* a non-empty string of digits, whether the separator is ',' or ', ' and
\* whatever trails the list.
C4_AvailableRucsAreTheListed ==
    (lastStep = "notFound" /\ Get(settled).body.listed # <<>>) =>
        /\ availableRucs = Get(settled).body.listed
        /\ \A i \in 1..Len(availableRucs) : AllDigits(availableRucs[i])

\* C5 (as claimed): only a 200 response is treated as a valid RUC.
C5_Only200IsValid ==
    lastStep = "accepted" => Get(settled).status = 200

\* C5 (amended): the outcome is classified by status: a response with a 2xx
\* status, and only that, is treated as a valid RUC; RUC-not-found is a 400
\* response only; every other outcome (another status, a network error, a 400
\* body that cannot be used) shows the connection-error toast alone and ends with
\* isLoading false; no failure writes local storage or schedules a redirect.
C5_OutcomeByStatus ==
    /\ [](IsSettleStep =>
            /\ lastStep = "accepted" <=>
                 (Get(settled).kind = "response" /\ Get(settled).status \in 200..299)
            /\ lastStep = "notFound" =>
                 (Get(settled).kind = "response" /\ Get(settled).status = 400)
            /\ (Get(settled).kind = "network" \/ Get(settled).status \in {404, 500}) =>
                 lastStep = "connectionError"
            /\ lastStep = "connectionError" =>
                 (toasts = <<TOAST_CONNECTION>> /\ ~isLoading /\ timer = None))
    /\ [][lastStep' \in {"notFound", "connectionError"} =>
            (localStorage' = localStorage /\ timer' = timer /\ location' = location)]_vars

C5_Witness ==
    /\ lastStep = "accepted"
    /\ Get(settled).status = 204
    /\ IsSome(timer)

\* C6: after a submission whose RUC the API accepted, remembered_ruc holds the
\* submitted RUC if the checkbox was checked at submission and is absent if it
\* was not, and current_ruc holds the submitted RUC.
C6_RememberFollowsCheckbox ==
    lastStep = "accepted" =>
        /\ localStorage.current_ruc = Some(Get(settled).ruc)
        /\ Get(settled).rememberRuc => localStorage.remembered_ruc = Some(Get(settled).ruc)
        /\ ~Get(settled).rememberRuc => localStorage.remembered_ruc = None

\* the checkbox was unchecked at submission and checked while the request was pending
C6_Witness ==
    /\ lastStep = "accepted"
    /\ ~Get(settled).rememberRuc
    /\ rememberRuc
    /\ localStorage.remembered_ruc = None
    /\ localStorage.current_ruc = Some(R1)

\* C7: in the RUC-only screen at most one validation request is pending; while
\* one is, isLoading is true, and while isLoading is true the submit button and
\* the RUC input are disabled.
C7_SingleRequestInFlight ==
    screen = "ruc" =>
        /\ Len(calls) <= 1
        /\ calls # <<>> => isLoading
        /\ isLoading => (~SubmitEnabled /\ ~RucInputEnabled)

C7_Witness ==
    /\ screen = "ruc"
    /\ Len(calls) = 1
    /\ calls[1].stage = "json"
    /\ isLoading

\* the RUC-only submission went through: its redirect is scheduled or done
Succeeded == screen = "ruc" /\ (IsSome(timer) \/ page = "left")

\* C8: in both screens a submission that passed validation and does not succeed
\* ends with isLoading false (the form enabled again), once the pending request
\* settles.
C8_FailureReenablesForm ==
    /\ (calls # <<>>) ~> ((calls = <<>> /\ ~isLoading) \/ Succeeded)
    /\ (lastStep = "awaitJson") ~> (calls = <<>> /\ ~isLoading /\ page = "mounted")

C8_Witness ==
    /\ lastStep = "connectionError"
    /\ Get(settled).status = 400
    /\ ~isLoading
    /\ calls = <<>>

\* C9 (as claimed): every 400 response gives the inline error and exactly one
\* 'RUC no valido' toast, never the connection-error toast.
C9_Every400IsNotFound ==
    (IsSettleStep /\ Get(settled).status = 400) =>
        /\ errors.ruc = MSG_RUC_NOT_FOUND
        /\ toasts = <<TOAST_RUC_INVALID>>

\* C9 (amended): every 400 response whose body parses to a JSON value other than
\* null, with a message that is absent or a string, gives the inline error and
\* exactly one 'RUC no valido' toast, and not the connection-error toast.
C9_Usable400IsNotFound ==
    (IsSettleStep /\ Get(settled).status = 400 /\ Get(settled).body.kind = "object") =>
        /\ lastStep = "notFound"
        /\ errors.ruc = MSG_RUC_NOT_FOUND
        /\ toasts = <<TOAST_RUC_INVALID>>
        /\ ~isLoading

C9_Witness ==
    /\ lastStep = "notFound"
    /\ Get(settled).body.message = None
    /\ errors.ruc = MSG_RUC_NOT_FOUND

\* C10: a network failure or a failure to parse the response body gives exactly
\* one 'Error de conexion' toast, makes the validation fail (isLoading false, no
\* redirect), and leaves errors.ruc and availableRucs as the submission set them:
\* no inline error, no suggested RUCs.
C10_ConnectionErrorOnly ==
    /\ [](IsSettleStep /\ ( \/ Get(settled).kind = "network"
                            \/ Get(settled).body.kind = "unparseable") =>
            /\ lastStep = "connectionError"
            /\ toasts = <<TOAST_CONNECTION>>
            /\ ~isLoading
            /\ timer = None
            /\ errors.ruc = ""
            /\ availableRucs = <<>>)
    /\ [][lastStep' = "connectionError" =>
            (errors' = errors /\ availableRucs' = availableRucs)]_vars

C10_Witness ==
    /\ lastStep = "connectionError"
    /\ Get(settled).body.kind = "unparseable"
    /\ toasts = <<TOAST_CONNECTION>>

\* the three fields as the full form's rules want them
RucOk == IsExactRuc(ruc)
EmailOk == IsEmail(email) /\ Len(email) <= EMAIL_MAX
PasswordOk == Len(password) >= PASSWORD_MIN /\ Len(password) <= PASSWORD_MAX

\* C11 (as claimed): in the full form signIn / signUp is called only when ruc is
\* exactly 11 numeric digits, email is a valid address of at most 255 characters
\* and password has 6 to 100 characters; a submission with an invalid field calls
\* neither, leaves isLoading false and local storage untouched, and sets an error
\* message for each invalid field.
C11_AuthOnlyForValidFields ==
    /\ [](screen = "full" /\ lastStep = "sent" => RucOk /\ EmailOk /\ PasswordOk)
    /\ [](screen = "full" /\ lastStep = "rejected" =>
            /\ ~(RucOk /\ EmailOk /\ PasswordOk)
            /\ calls = <<>>
            /\ ~isLoading
            /\ (~RucOk => errors.ruc # "")
            /\ (~EmailOk => errors.email # "")
            /\ (~PasswordOk => errors.password # ""))
    /\ [][screen = "full" /\ lastStep' = "rejected" => localStorage' = localStorage]_vars

\* what a submission with this closure leaves under remembered_ruc
RememberedOf(c) == IF c.rememberRuc THEN Some(c.ruc) ELSE None

\* C12: in the full form, once a submission passed validation, remembered_ruc is
\* the submitted RUC if the checkbox was checked and absent otherwise: it is so
\* while signIn / signUp is pending, and still so when the call has settled,
\* whether it succeeded, returned an error or threw.
C12_RememberedBeforeAuthCall ==
    /\ [](screen = "full" =>
            \A i \in 1..Len(calls) : localStorage.remembered_ruc = RememberedOf(calls[i]))
    /\ [](screen = "full" /\ lastStep \in {"authOk", "authFailed"} =>
            localStorage.remembered_ruc = RememberedOf(Get(settled)))
    /\ [][screen = "full" /\ lastStep' \in {"authOk", "authFailed"} =>
            localStorage' = localStorage]_vars

C12_Witness ==
    /\ screen = "full"
    /\ lastStep = "authFailed"
    /\ Get(settled).kind = "throws"
    /\ ~Get(settled).rememberRuc
    /\ localStorage.remembered_ruc = None
    /\ IsSome(localStorage.company_logos)

\* C13 (as claimed): after the RUC-only screen accepted a submission of RUC r,
\* mounting the screen again yields ruc = r and rememberRuc true if the checkbox
\* was checked at that submission, and an empty ruc and rememberRuc false if it
\* was not, whatever was remembered before.
C13_RememberRoundTrip ==
    (lastStep = "mount" /\ IsSome(lastAccepted)) =>
        /\ page = "mounted"
        /\ IF Get(lastAccepted).rememberRuc
           THEN ruc = Get(lastAccepted).ruc /\ rememberRuc
           ELSE ruc = <<>> /\ ~rememberRuc

\* C14: the dashboard shows its content (the user's e-mail and the sign-out
\* button) only when loading is false and a user is present; whenever loading is
\* false and there is no user it renders nothing and its effect navigates to
\* '/auth'; the only other way from '/' to '/auth' is handleSignOut, and only once
\* its signOut() call completed.
C14_DashboardGuard ==
    /\ [](route = "/" /\ IndexRender.kind = "content" =>
            /\ ~loading
            /\ IsSome(user)
            /\ IndexRender.email = user
            /\ IndexRender.signOutButton)
    /\ [](route = "/" /\ ~loading /\ ~IsSome(user) =>
            IndexRender.kind = "null" /\ effectPending)
    /\ ((route = "/" /\ ~loading /\ ~IsSome(user)) ~>
            (route = "/auth" \/ loading \/ IsSome(user)))
    /\ [][route = "/" /\ route' = "/auth" =>
            \/ lastStep' = "guardRedirect" /\ ~loading /\ ~IsSome(user)
            \/ lastStep' = "signedOut" /\ settled' = Some([kind |-> "ok"])]_vars
    /\ [][lastStep' \in {"signOutCalled", "signOutFailed"} => route' = route]_vars

C14_Witness ==
    /\ lastStep = "signedOut"
    /\ route = "/auth"
    /\ IsSome(user)
    /\ ~loading
    /\ signOuts = 0

\* C15: in the RUC-only screen a submission that fails (rejected by validateForm,
\* a 400 response, any other non-2xx status, a network error or an unreadable
\* body) leaves every local-storage key as it was, whatever the checkbox says:
\* no step of such a submission writes, and local storage changes only in the
\* step that accepts a submission.
C15_FailureLeavesStorage ==
    /\ [][screen = "ruc" /\
          lastStep' \in {"rejected", "sent", "awaitJson", "notFound", "connectionError"} =>
            localStorage' = localStorage]_vars
    /\ [][screen = "ruc" /\ localStorage' # localStorage => lastStep' = "accepted"]_vars

C15_Witness ==
    /\ screen = "ruc"
    /\ lastStep = "notFound"
    /\ ~Get(settled).rememberRuc
    /\ IsSome(localStorage.remembered_ruc)
    /\ localStorage.remembered_ruc # Some(Get(settled).ruc)
    /\ IsSome(localStorage.company_logos)

\* C16 (as claimed): in every reachable state of the auth screen ruc holds only
\* digits and at most 11 characters, whether it was set by the change handler,
\* by the mount effect from remembered_ruc, or by clicking a suggested RUC.
C16_RucIsDigitsUpTo11 ==
    Len(ruc) <= RUC_LEN /\ \A i \in 1..Len(ruc) : IsDigit(ruc[i])

\* C17 (as claimed): whenever the avatar shows a logo image for the entered
\* 11-digit RUC, that URL is the entry stored under that same RUC in
\* company_logos; so once the user changed the RUC to a different value the logo
\* of the previously remembered RUC is no longer shown.
C17_LogoBelongsToRuc ==
    IsSome(AvatarLogo) => AvatarLogo = CachedLogo(ruc)

\* C18: in the RUC-only screen every submission that passed validation empties
\* availableRucs before its request is sent, and the list stays empty while the
\* request is pending; after a success, a connection error, or a 400 whose
\* message carries no list of permitted RUCs it is empty, and it becomes
\* non-empty only in the step that handles a 400 whose message carried a list.
C18_SuggestionsOnlyFromListed400 ==
    /\ [](screen = "ruc" /\ calls # <<>> => availableRucs = <<>>)
    /\ [](screen = "ruc" /\ lastStep \in {"sent", "awaitJson", "accepted", "connectionError"} =>
            availableRucs = <<>>)
    /\ [](lastStep = "notFound" /\ Get(settled).body.listed = <<>> => availableRucs = <<>>)
    /\ [][availableRucs' # availableRucs /\ availableRucs' # <<>> =>
            /\ lastStep' = "notFound"
            /\ Get(settled').status = 400
            /\ Get(settled').body.listed # <<>>]_vars

C18_Witness ==
    /\ lastStep = "notFound"
    /\ Get(settled).body.message = Some(MSG_PREFIX \o MARKER)
    /\ availableRucs = <<>>
    /\ errors.ruc = MSG_RUC_NOT_FOUND

\* C19: in the RUC-only screen, once a submission was accepted isLoading is never
\* reset: while the redirect is scheduled the input and the submit button are
\* disabled, no validation request is pending or can be sent, and no step
\* rewrites local storage or the RUC; and a scheduled redirect eventually fires,
\* to the URL of the accepted RUC.
C19_SuccessKeepsFormDisabled ==
    /\ [](screen = "ruc" /\ IsSome(lastAccepted) => isLoading)
    /\ [](IsSome(timer) =>
            /\ screen = "ruc"
            /\ ~SubmitEnabled
            /\ ~RucInputEnabled
            /\ calls = <<>>
            /\ localStorage.current_ruc = Some(Get(lastAccepted).ruc))
    /\ [][IsSome(timer) =>
            /\ localStorage' = localStorage
            /\ calls' = <<>>
            /\ ruc' = ruc
            /\ lastStep' \in {"none", "redirected"}]_vars
    /\ (IsSome(timer) ~>
            (page = "left" /\ location = Some(RedirectUrl(Get(lastAccepted).ruc))))

C19_Witness ==
    /\ lastStep = "redirected"
    /\ page = "left"
    /\ isLoading
    /\ rememberRuc /\ ~Get(lastAccepted).rememberRuc
    /\ localStorage.remembered_ruc = None
    /\ location = Some(RedirectUrl(ruc))

====
